---- MODULE Spec2Model ----
(***************************************************************************)
(* Structural selection growth for VS Code (vscode-select-parameters).     *)
(*                                                                         *)
(* Two variants of the extension are modelled: "main" is the active        *)
(* extension (src/unnamed/part_000, grow = fan-out to JSX attribute names) *)
(* and "copy" is the earlier variant (src/src/extension copy.ts, grow =    *)
(* plain structural growth).  The pure functions (collapseWhitespace,      *)
(* path resolution, growRange, ...) are operators; the VerySmartSelect     *)
(* object and the host's selection-change notifications are the state      *)
(* machine.                                                                *)
(***************************************************************************)
EXTENDS Integers, Sequences, FiniteSets, TLC

VARIABLES
    variant,              \* which extension file is running: "main" | "copy"
    doc,                  \* the document of the editor (a key of Docs)
    selections,           \* editor.selections, as the extension host reads it
    selectionsHistory,    \* VerySmartSelect.selectionsHistory
    didUpdateSelections,  \* VerySmartSelect.didUpdateSelections
    pending,              \* change events of the engine's own applies not yet observed
    lastOp,               \* what the handler that ran last did (observation only)
    expect,               \* observation: SelectionSets the shrinks are expected to restore
    extSeen,              \* observation: an external change came since the last grow/shrink
    call                  \* the last evaluation of a pure function (pure specification)

vars == <<variant, doc, selections, selectionsHistory,
          didUpdateSelections, pending, lastOp, expect, extSeen, call>>

----------------------------------------------------------------------------
(* Bounds of the model *)

\* most selections a SelectionSet applied by a grow may hold
MaxSel == 4
\* most change events of own applies that may be in flight
MaxPending == 2
\* most SelectionSets the history may hold
MaxHistory == 3
\* most intervals in a batch handed to TypescriptStrategy.grow
MaxBatch == 2
\* number of nested prefix operators of the deep document
DeepLen == 103
\* most evaluations of the loop of growUntilJsxElement
MaxLoop == 128

(* Program constants *)

\* let rLimit = 100;
rLimit == 100

----------------------------------------------------------------------------
(* Syntax trees.  A node is [kind, pos, end, children]: pos is getFullStart() *)
(* (leading trivia included), end is getEnd(), children are the nodes        *)
(* forEachChild visits, in order, as indices into the document's node list.  *)

N(kind, pos, end, children) ==
    [kind |-> kind, pos |-> pos, end |-> end, children |-> children]

NoNode == 0

\* const x = { a: 1, b: 2 };
TextObj == << "c","o","n","s","t"," ","x"," ","="," ","{"," ","a",":"," ","1",
              ","," ","b",":"," ","2"," ","}",";" >>

NodesObj == <<
    N("SourceFile", 0, 25, <<2, 13>>),
    N("VariableStatement", 0, 25, <<3>>),
    N("VariableDeclarationList", 0, 24, <<4>>),
    N("VariableDeclaration", 5, 24, <<5, 6>>),
    N("Identifier", 5, 7, <<>>),
    N("ObjectLiteralExpression", 9, 24, <<7, 10>>),
    N("PropertyAssignment", 11, 16, <<8, 9>>),
    N("Identifier", 11, 13, <<>>),
    N("NumericLiteral", 14, 16, <<>>),
    N("PropertyAssignment", 17, 22, <<11, 12>>),
    N("Identifier", 17, 19, <<>>),
    N("NumericLiteral", 20, 22, <<>>),
    N("EndOfFileToken", 25, 25, <<>>) >>

\* <Foo bar={1} baz="x" />
TextJsx == << "<","F","o","o"," ","b","a","r","=","{","1","}"," ","b","a","z",
              "=","\"","x","\""," ","/",">" >>

NodesJsx == <<
    N("SourceFile", 0, 23, <<2, 13>>),
    N("ExpressionStatement", 0, 23, <<3>>),
    N("JsxSelfClosingElement", 0, 23, <<4, 5>>),
    N("Identifier", 1, 4, <<>>),
    N("JsxAttributes", 4, 20, <<6, 10>>),
    N("JsxAttribute", 4, 12, <<7, 8>>),
    N("Identifier", 4, 8, <<>>),
    N("JsxExpression", 9, 12, <<9>>),
    N("NumericLiteral", 10, 11, <<>>),
    N("JsxAttribute", 12, 20, <<11, 12>>),
    N("Identifier", 12, 16, <<>>),
    N("StringLiteral", 17, 20, <<>>),
    N("EndOfFileToken", 23, 23, <<>>) >>

\* <A b/>
TextOne == << "<","A"," ","b","/",">" >>

NodesOne == <<
    N("SourceFile", 0, 6, <<2, 8>>),
    N("ExpressionStatement", 0, 6, <<3>>),
    N("JsxSelfClosingElement", 0, 6, <<4, 5>>),
    N("Identifier", 1, 2, <<>>),
    N("JsxAttributes", 2, 4, <<6>>),
    N("JsxAttribute", 2, 4, <<7>>),
    N("Identifier", 2, 4, <<>>),
    N("EndOfFileToken", 6, 6, <<>>) >>

\* two statements on two lines, with leading and trailing trivia:  a;\n b;\n
TextLines == << " ","a",";","\n"," ","b",";","\n" >>

NodesLines == <<
    N("SourceFile", 0, 8, <<2, 4, 6>>),
    N("ExpressionStatement", 0, 3, <<3>>),
    N("Identifier", 0, 2, <<>>),
    N("ExpressionStatement", 3, 7, <<5>>),
    N("Identifier", 3, 6, <<>>),
    N("EndOfFileToken", 7, 8, <<>>) >>

\* 'a${b}c';  where ' stands for the backquote of a template literal
TextTpl == << "'","a","$","{","b","}","c","'",";" >>

NodesTpl == <<
    N("SourceFile", 0, 9, <<2, 8>>),
    N("ExpressionStatement", 0, 9, <<3>>),
    N("TemplateExpression", 0, 8, <<4, 5>>),
    N("TemplateHead", 0, 4, <<>>),
    N("TemplateSpan", 4, 8, <<6, 7>>),
    N("Identifier", 4, 5, <<>>),
    N("TemplateTail", 5, 8, <<>>),
    N("EndOfFileToken", 9, 9, <<>>) >>

\* !!! ... !a;   (DeepLen prefix operators): a chain of DeepLen + 2 growth steps
TextDeep == [i \in 1..(DeepLen + 2) |->
                IF i <= DeepLen THEN "!" ELSE IF i = DeepLen + 1 THEN "a" ELSE ";"]

NodesDeep == [i \in 1..(DeepLen + 4) |->
    IF i = 1 THEN N("SourceFile", 0, DeepLen + 2, <<2, DeepLen + 4>>)
    ELSE IF i = 2 THEN N("ExpressionStatement", 0, DeepLen + 2, <<3>>)
    ELSE IF i <= DeepLen + 2
         THEN N("PrefixUnaryExpression", i - 3, DeepLen + 1, <<i + 1>>)
    ELSE IF i = DeepLen + 3 THEN N("Identifier", DeepLen, DeepLen + 1, <<>>)
    ELSE N("EndOfFileToken", DeepLen + 2, DeepLen + 2, <<>>)]

\* The syntax trees of the documents
Trees == [ obj |-> NodesObj, jsx |-> NodesJsx, one |-> NodesOne, lines |-> NodesLines,
           plain |-> NodesLines, proto |-> NodesOne, tpl |-> NodesTpl, deep |-> NodesDeep ]

\* The parent of each node (NoNode for the root)
ParentOf ==
    [d \in DOMAIN Trees |-> [n \in 1..Len(Trees[d]) |->
        IF \E m \in 1..Len(Trees[d]) :
              \E k \in 1..Len(Trees[d][m].children) : Trees[d][m].children[k] = n
        THEN CHOOSE m \in 1..Len(Trees[d]) :
              \E k \in 1..Len(Trees[d][m].children) : Trees[d][m].children[k] = n
        ELSE NoNode]]

\* The last node of each node's subtree.  The nodes of a document are listed in
\* the order forEachChild visits them (preorder), so the subtree of n ends before
\* the first later node whose parent comes before n.
LastOf ==
    [d \in DOMAIN Trees |-> [n \in 1..Len(Trees[d]) |->
        LET after == {k \in (n + 1)..Len(Trees[d]) : ParentOf[d][k] < n}
        IN  IF after = {} THEN Len(Trees[d])
            ELSE (CHOOSE k \in after : \A j \in after : k <= j) - 1]]

\* Each node with its ancestors
AncestorsOrSelf ==
    [d \in DOMAIN Trees |-> [n \in 1..Len(Trees[d]) |->
        {m \in 1..n : n <= LastOf[d][m]}]]

\* A document: the SourceFile ts.createSourceFile yields for its text (text and
\* nodes, with each node's ancestors), its languageId, and the offsets external
\* selection changes and batches are drawn from (marks).
D(name, languageId, text, marks) ==
    [name |-> name, languageId |-> languageId, text |-> text, nodes |-> Trees[name],
     ancestors |-> AncestorsOrSelf[name], marks |-> marks]

\* The documents of the model
Docs == [ obj   |-> D("obj", "typescript", TextObj, {13, 21}),
          jsx   |-> D("jsx", "typescriptreact", TextJsx, {6, 23}),
          one   |-> D("one", "javascriptreact", TextOne, {0, 3}),
          lines |-> D("lines", "javascript", TextLines, {3, 5}),
          plain |-> D("plain", "plaintext", TextLines, {0, 5}),
          proto |-> D("proto", "constructor", TextOne, {0, 3}),
          tpl   |-> D("tpl", "typescript", TextTpl, {1, 4}),
          deep  |-> D("deep", "typescript", TextDeep, {0, DeepLen + 1}) ]

DocNames == DOMAIN Docs

\* this.strategies[...] = new TypescriptStrategy()
Strategies == {"typescript", "typescriptreact", "javascript", "javascriptreact",
               "json", "jsonc"}

\* The keys this.strategies, a plain object, inherits from Object.prototype:
\* this.strategies[languageId] is not undefined for them, and is no strategy
InheritedKeys == {"constructor", "__proto__", "toString", "toLocaleString", "valueOf",
                  "hasOwnProperty", "isPrototypeOf", "propertyIsEnumerable",
                  "__defineGetter__", "__defineSetter__", "__lookupGetter__",
                  "__lookupSetter__"}

Variants == {"main", "copy"}

----------------------------------------------------------------------------
(* Ranges and whitespace *)

Range(start, end) == [start |-> start, end |-> end]

\* The characters /\s/ matches.  A character of a text is a one-character
\* string; a character that cannot be written in a string here is written by
\* the name of its code point.
WhitespaceCharacters ==
    {" ", "\t", "\n", "\r", "\f", "U+000B", "U+00A0", "U+1680",
     "U+2000", "U+2001", "U+2002", "U+2003", "U+2004", "U+2005", "U+2006",
     "U+2007", "U+2008", "U+2009", "U+200A", "U+2028", "U+2029", "U+202F",
     "U+205F", "U+3000", "U+FEFF"}

\* const WHITESPACE = /\s/;
WHITESPACE(c) == c \in WhitespaceCharacters

\* String.prototype.charAt: the empty string outside the text
charAt(text, i) == IF i >= 0 /\ i < Len(text) THEN text[i + 1] ELSE ""

\* Faulty variant of leftRemove: an if in place of the while, so that at most
\* one leading whitespace character is removed
leftRemoveOne(text, i) ==
    IF i < Len(text) /\ WHITESPACE(charAt(text, i)) THEN 1 ELSE 0

\* while (i < source.length && WHITESPACE.test(source.charAt(i))) { i++; leftRemove++; }
RECURSIVE leftRemove(_, _)
leftRemove(text, i) ==
    IF i < Len(text) /\ WHITESPACE(charAt(text, i))
    THEN 1 + leftRemove(text, i + 1)
    ELSE 0

\* while (j >= 0 && WHITESPACE.test(source.charAt(j))) { j--; rightRemove++; }
RECURSIVE rightRemove(_, _)
rightRemove(text, j) ==
    IF j >= 0 /\ WHITESPACE(charAt(text, j))
    THEN 1 + rightRemove(text, j - 1)
    ELSE 0

collapseWhitespace(text, range) ==
    Range(range.start + leftRemove(text, range.start),
          range.end - rightRemove(text, range.end - 1))

----------------------------------------------------------------------------
(* Node-to-range mapping and path resolution *)

\* node.literal of a TemplateSpan: its last child
literalFullWidth(sf, n) ==
    LET kids == sf.nodes[n].children
        lit  == sf.nodes[kids[Len(kids)]]
    IN  lit.end - lit.pos

\* The boundary corrections of the "copy" variant; they are commented out in "main".
ds(v, kind) ==
    IF v = "main" THEN 0
    ELSE IF kind = "TemplateSpan" THEN -2
    ELSE IF kind = "TemplateMiddle" THEN 1
    ELSE IF kind = "TemplateTail" THEN 1
    ELSE IF kind = "TemplateHead" THEN 2
    ELSE 0

de(v, sf, n, kind) ==
    IF v = "main" THEN 0
    ELSE IF kind = "TemplateSpan" THEN 1 - literalFullWidth(sf, n)
    ELSE IF kind = "TemplateMiddle" THEN -2
    ELSE IF kind = "TemplateTail" THEN -1
    ELSE IF kind = "TemplateHead" THEN -2
    ELSE 0

nodeToRange(v, sf, n) ==
    Range(sf.nodes[n].pos + ds(v, sf.nodes[n].kind),
          sf.nodes[n].end + de(v, sf, n, sf.nodes[n].kind))

\* if (start < nodeStart || end > nodeEnd) { return; }
notContained(sf, n, start, end) ==
    start < sf.nodes[n].pos \/ end > sf.nodes[n].end

\* Appends to path the nodes of n's subtree the recursion reaches, in preorder;
\* a node that does not contain [start, end] prunes its subtree.
RECURSIVE pathToPositionInternal(_, _, _, _, _)
RECURSIVE forEachChildPath(_, _, _, _, _, _)
pathToPositionInternal(sf, n, start, end, path) ==
    IF notContained(sf, n, start, end)
    THEN path
    ELSE forEachChildPath(sf, sf.nodes[n].children, 1, start, end, Append(path, n))

forEachChildPath(sf, kids, k, start, end, path) ==
    IF k > Len(kids)
    THEN path
    ELSE forEachChildPath(sf, kids, k + 1, start, end,
                          pathToPositionInternal(sf, kids[k], start, end, path))

\* The recursion pushes node n exactly when n and every ancestor of n contain
\* [start, end], and pushes in index order.
pushed(sf, n, start, end) ==
    \A m \in sf.ancestors[n] : ~notContained(sf, m, start, end)

\* The same path without recursion, for trees too deep for it
pathOfDeepTree(sf, start, end) ==
    SelectSeq([n \in 1..Len(sf.nodes) |-> n], LAMBDA n : pushed(sf, n, start, end))

\* getPathOfNodesInRange (main) / pathToPosition (copy), from the SourceFile node
getPathOfNodesInRange(sf, start, end) ==
    IF sf.name = "deep"
    THEN pathOfDeepTree(sf, start, end)
    ELSE pathToPositionInternal(sf, 1, start, end, <<>>)

----------------------------------------------------------------------------
(* Growth *)

undefined == <<>>

\* Faulty variant of accepts: the first disjunct does not require the candidate
\* to reach the end of the range
acceptsStartOnly(outRange, range) ==
    \/ outRange.start < range.start
    \/ (outRange.end > range.end /\ outRange.start <= range.start)

\* (outRange.start < range.start && outRange.end >= range.end) ||
\* (outRange.end > range.end && outRange.start <= range.start)
accepts(outRange, range) ==
    \/ (outRange.start < range.start /\ outRange.end >= range.end)
    \/ (outRange.end > range.end /\ outRange.start <= range.start)

\* for (let i = pathOfNodes.length - 1; i >= 0; i--) { ... return node; }
\* the node at the largest index of the path whose collapsed range is accepted
deepestAccepted(v, sf, range, pathOfNodes) ==
    LET accepted == {i \in 1..Len(pathOfNodes) :
                        accepts(collapseWhitespace(sf.text,
                                                   nodeToRange(v, sf, pathOfNodes[i])), range)}
    IN  IF accepted = {}
        THEN NoNode
        ELSE pathOfNodes[CHOOSE i \in accepted : \A j \in accepted : j <= i]

rangeToNode(v, sf, range) ==
    deepestAccepted(v, sf, range, getPathOfNodesInRange(sf, range.start, range.end))

\* Faulty variant of outRangeOf: the range of the node is returned as it is,
\* without collapseWhitespace
outRangeUncollapsed(v, sf, expansionNode) ==
    IF expansionNode = NoNode
    THEN undefined
    ELSE << nodeToRange(v, sf, expansionNode) >>

\* const outRange = collapseWhitespace(nodeToRange(expansionNode));
\* undefined (<<>>) when there is no expansion node, else <<outRange>>
outRangeOf(v, sf, expansionNode) ==
    IF expansionNode = NoNode
    THEN undefined
    ELSE << collapseWhitespace(sf.text, nodeToRange(v, sf, expansionNode)) >>

\* growRange: undefined (<<>>) or <<outRange>>
growRange(v, sf, range) == outRangeOf(v, sf, rangeToNode(v, sf, range))

\* Faulty variant of growRanges: the batch ends at the first range that cannot grow
RECURSIVE growRangesUntilNone(_, _, _)
growRangesUntilNone(v, sf, startRanges) ==
    IF startRanges = <<>> \/ growRange(v, sf, Head(startRanges)) = undefined
    THEN <<>>
    ELSE growRange(v, sf, Head(startRanges)) \o growRangesUntilNone(v, sf, Tail(startRanges))

\* startRanges.map(growRange).filter(range => range !== undefined)
RECURSIVE growRanges(_, _, _)
growRanges(v, sf, startRanges) ==
    IF startRanges = <<>>
    THEN <<>>
    ELSE growRange(v, sf, Head(startRanges)) \o growRanges(v, sf, Tail(startRanges))

\* node && (ts.isJsxSelfClosingElement(node) || ts.isJsxOpeningElement(node) || ts.isJsxElement(node))
isJsxElementNode(sf, node) ==
    /\ node # NoNode
    /\ sf.nodes[node].kind \in {"JsxSelfClosingElement", "JsxOpeningElement", "JsxElement"}

\* rangeIsJsxElement: undefined and false are both falsy
rangeIsJsxElement(sf, range) == isJsxElementNode(sf, rangeToNode("main", sf, range))

\* Faulty variant of rLimitExceeded: the limit is one step later
rLimitExceededLate(r) == r > rLimit + 1

\* if (r > rLimit) { console.error('WARNING, rLimit exceeded'); return; }
rLimitExceeded(r) == r > rLimit

\* The state of the while loop of growUntilJsxElement: grownRange, r, whether
\* the function has returned, what it returned (undefined or <<grownRange>>),
\* and the number of calls of growRange so far.
Loop(grownRange, r, done, ret, calls) ==
    [grownRange |-> grownRange, r |-> r, done |-> done, ret |-> ret, calls |-> calls]

\* The loop body after  const newGrownRange = growRange(grownRange)
loopBody(st, newGrownRange) ==
    IF newGrownRange = undefined
    THEN Loop(st.grownRange, st.r, TRUE, undefined, st.calls + 1)
    ELSE IF rLimitExceeded(st.r + 1)
         THEN Loop(newGrownRange[1], st.r + 1, TRUE, undefined, st.calls + 1)
         ELSE Loop(newGrownRange[1], st.r + 1, FALSE, undefined, st.calls + 1)

\* One evaluation of the loop condition and, if it holds, of the loop body
growUntilStep(sf, st) ==
    IF st.done
    THEN st
    ELSE IF rangeIsJsxElement(sf, st.grownRange)
         THEN Loop(st.grownRange, st.r, TRUE, <<st.grownRange>>, st.calls)
         ELSE loopBody(st, growRange("main", sf, st.grownRange))

\* n evaluations of the loop, by halves (a chain of n nested applications is
\* too deep to evaluate); nothing is left to do once the function has returned
RECURSIVE growUntilIterate(_, _, _)
RECURSIVE growUntilRest(_, _, _)
growUntilIterate(sf, n, st) ==
    IF st.done \/ n = 0 THEN st
    ELSE IF n = 1 THEN growUntilStep(sf, st)
    ELSE growUntilRest(sf, n - (n \div 2), growUntilIterate(sf, n \div 2, st))

growUntilRest(sf, n, half) ==
    IF half.done THEN half ELSE growUntilIterate(sf, n, half)

\* growUntilJsxElement: the loop, run until it returns (done is FALSE if it has
\* not returned within MaxLoop evaluations)
growUntilJsxElement(sf, range) ==
    growUntilIterate(sf, MaxLoop, Loop(range, 0, FALSE, undefined, 0))

\* getAllChildNodes: every descendant of n, in preorder
RECURSIVE getAllChildNodes(_, _)
RECURSIVE getAllChildNodesOf(_, _, _)
getAllChildNodes(sf, n) == getAllChildNodesOf(sf, sf.nodes[n].children, 1)

getAllChildNodesOf(sf, kids, k) ==
    IF k > Len(kids)
    THEN <<>>
    ELSE <<kids[k]>> \o getAllChildNodes(sf, kids[k]) \o getAllChildNodesOf(sf, kids, k + 1)

\* childNodes.find(childNode => childNode.kind === SyntaxKind.JsxAttributes)
RECURSIVE findJsxAttributes(_, _, _)
findJsxAttributes(sf, childNodes, k) ==
    IF k > Len(childNodes)
    THEN NoNode
    ELSE IF sf.nodes[childNodes[k]].kind = "JsxAttributes"
         THEN childNodes[k]
         ELSE findJsxAttributes(sf, childNodes, k + 1)

\* A result of the extraction: the ranges pushed so far, and whether a
\* TypeError was thrown (nodeToRange of an undefined first child).
Params(threw, ranges) == [threw |-> threw, ranges |-> ranges]

\* jsxAttributesNode.forEachChild(jsxAttributeNode => { ... paramRanges.push(...) })
RECURSIVE forEachJsxAttribute(_, _, _, _)
forEachJsxAttribute(sf, kids, k, acc) ==
    IF acc.threw \/ k > Len(kids)
    THEN acc
    ELSE IF sf.nodes[kids[k]].kind # "JsxAttribute"
         THEN forEachJsxAttribute(sf, kids, k + 1, acc)
         ELSE IF sf.nodes[kids[k]].children = <<>>
              THEN Params(TRUE, acc.ranges)
              ELSE forEachJsxAttribute(sf, kids, k + 1,
                      Params(FALSE, Append(acc.ranges,
                          collapseWhitespace(sf.text,
                              nodeToRange("main", sf, sf.nodes[kids[k]].children[1])))))

\* if (jsxAttributesNode) { jsxAttributesNode.forEachChild(...) }
paramsOfAttributes(sf, jsxAttributesNode, acc) ==
    IF jsxAttributesNode = NoNode
    THEN acc
    ELSE forEachJsxAttribute(sf, sf.nodes[jsxAttributesNode].children, 1, acc)

\* if (node) { const childNodes = getAllChildNodes(node); ... }
paramsOfNode(sf, node, acc) ==
    IF node = NoNode
    THEN acc
    ELSE paramsOfAttributes(sf, findJsxAttributes(sf, getAllChildNodes(sf, node), 1), acc)

\* The body of jsxElementRanges.forEach for one maybeRange
paramsOfRange(sf, maybeRange, acc) ==
    IF maybeRange = undefined
    THEN acc
    ELSE paramsOfNode(sf, rangeToNode("main", sf, maybeRange[1]), acc)

\* ranges.map(growUntilJsxElement) followed by jsxElementRanges.forEach(...)
RECURSIVE paramRangesOf(_, _, _, _)
paramRangesOf(sf, ranges, k, acc) ==
    IF acc.threw \/ k > Len(ranges)
    THEN acc
    ELSE paramRangesOf(sf, ranges, k + 1,
                       paramsOfRange(sf, growUntilJsxElement(sf, ranges[k]).ret, acc))

\* findParams, given the ranges strategy.grow(editor) returned
findParamsOfRanges(sf, ranges) == paramRangesOf(sf, ranges, 1, Params(FALSE, <<>>))

----------------------------------------------------------------------------
(* Positions and selections of the host *)

Pos(line, character) == [line |-> line, character |-> character]

Min(a, b) == IF a <= b THEN a ELSE b
Max(a, b) == IF a >= b THEN a ELSE b

\* the character at index i ends a line: the host's lines end at \r\n, \r or \n
endsLine(text, i) ==
    \/ text[i] = "\n"
    \/ (text[i] = "\r" /\ ~(i < Len(text) /\ text[i + 1] = "\n"))

newlinesBefore(text, offset) == Cardinality({i \in 1..offset : endsLine(text, i)})

lineCount(text) == newlinesBefore(text, Len(text)) + 1

\* offset of the first character of a line
lineStart(text, line) ==
    IF line = 0
    THEN 0
    ELSE CHOOSE i \in 1..Len(text) : endsLine(text, i) /\ newlinesBefore(text, i) = line

\* offset of the line break (\r\n, \r or \n) that ends just before offset next
lineBreakBefore(text, next) ==
    IF next >= 2 /\ text[next - 1] = "\r" /\ text[next] = "\n" THEN next - 2 ELSE next - 1

\* offset of the end of a line (its line break excluded)
lineEnd(text, line) ==
    IF line + 1 >= lineCount(text)
    THEN Len(text)
    ELSE lineBreakBefore(text, lineStart(text, line + 1))

\* doc.positionAt(offset)
positionAt(text, offset) ==
    LET o == Max(0, Min(offset, Len(text)))
        line == newlinesBefore(text, o)
    IN  Pos(line, Min(o, lineEnd(text, line)) - lineStart(text, line))

\* doc.offsetAt(position)
offsetAt(text, position) ==
    IF position.line >= lineCount(text)
    THEN Len(text)
    ELSE Min(lineStart(text, position.line) + position.character,
             lineEnd(text, position.line))

isBeforeOrEqual(p, q) ==
    p.line < q.line \/ (p.line = q.line /\ p.character <= q.character)

\* new vscode.Selection(anchor, active)
Selection(anchor, active) == [anchor |-> anchor, active |-> active]

\* selection.start / selection.end
selStart(sel) == IF isBeforeOrEqual(sel.anchor, sel.active) THEN sel.anchor ELSE sel.active
selEnd(sel) == IF isBeforeOrEqual(sel.anchor, sel.active) THEN sel.active ELSE sel.anchor

\* editor.selections.map(selection => ({start: doc.offsetAt(selection.start), ...}))
startRanges(sf, sels) ==
    [i \in 1..Len(sels) |->
        Range(offsetAt(sf.text, selStart(sels[i])),
              offsetAt(sf.text, selEnd(sels[i])))]

\* TypescriptStrategy.grow(editor)
TypescriptStrategy_grow(v, sf, sels) == growRanges(v, sf, startRanges(sf, sels))

\* findParams, given the offsets of the editor's selections
findParamsFrom(sf, ranges) == findParamsOfRanges(sf, growRanges("main", sf, ranges))

\* findParams(strategy, editor)
findParams(sf, sels) == findParamsFrom(sf, startRanges(sf, sels))

\* ranges.map(range => new vscode.Selection(doc.positionAt(range.start), doc.positionAt(range.end)))
toSelections(sf, ranges) ==
    [i \in 1..Len(ranges) |->
        Selection(positionAt(sf.text, ranges[i].start),
                  positionAt(sf.text, ranges[i].end))]

\* selection.isEqual(other): Selection inherits Range.isEqual, which compares
\* start and end and not the direction of the selection
isEqual(a, b) == selStart(a) = selStart(b) /\ selEnd(a) = selEnd(b)

areSelectionsEqual(sels, otherSelections) ==
    /\ Len(sels) = Len(otherSelections)
    /\ \A i \in 1..Len(sels) : isEqual(sels[i], otherSelections[i])

----------------------------------------------------------------------------
(* VerySmartSelect and the host *)

NativeGrow == "editor.action.smartSelect.grow"
NativeShrink == "editor.action.smartSelect.shrink"

\* What a handler did: the host command it executed ("none" if none), whether it
\* assigned editor.selections, whether it threw, and, for a grow, whether the
\* strategy's output was computed and was empty.
Op(op, native, applied, threw, emptyOut) ==
    [op |-> op, native |-> native, applied |-> applied, threw |-> threw,
     emptyOut |-> emptyOut]

Cursor(sf, offset) ==
    Selection(positionAt(sf.text, offset), positionAt(sf.text, offset))

\* The SelectionSets the user may set: a cursor at a mark, a reversed selection
\* between two marks, two cursors.
UserSelectionSets(sf) ==
    LET pairs == {p \in sf.marks \X sf.marks : p[1] < p[2]}
    IN   { <<Cursor(sf, m)>> : m \in sf.marks }
    \cup { <<Selection(positionAt(sf.text, p[2]), positionAt(sf.text, p[1]))>> : p \in pairs }
    \cup { <<Cursor(sf, p[1]), Cursor(sf, p[2])>> : p \in pairs }

\* The documents the editor may show
EditorDocs == {"jsx", "one", "lines", "plain", "proto"}

\* The host reports a selection change when the applied selections differ from
\* the current ones; when they are the same it may report none.
EventsOfApply(old, new) == IF old = new THEN {0, 1} ELSE {1}

\* Faulty variant of updateSelectionsHistory: sels is pushed without the
\* comparison with the last entry
updateSelectionsHistoryAlways(history, sels) == Append(history, sels)

\* updateSelectionsHistory: the history after recording sels
updateSelectionsHistory(history, sels) ==
    LET lastSelections == IF Len(history) > 0 THEN <<history[Len(history)]>> ELSE undefined
    IN  IF lastSelections = undefined \/ ~areSelectionsEqual(lastSelections[1], sels)
        THEN Append(history, sels)
        ELSE history

\* Faulty variant of willApply: the length of the selections is not tested
willApplyAny(open, sels) == open

\* if (editor && selections.length > 0)
willApply(open, sels) == open /\ Len(sels) > 0

\* updateSelections(sels): sets the one-shot flag, then assigns editor.selections;
\* the host's change event for the assignment is delivered later.
updateSelections(editor, sels) ==
    IF willApply(editor, sels)
    THEN /\ didUpdateSelections' = TRUE
         /\ selections' = sels
         /\ \E ev \in EventsOfApply(selections, sels) : pending' = pending + ev
    ELSE UNCHANGED <<didUpdateSelections, selections, pending>>

\* the listener of onDidChangeTextEditorSelection
listenerFlag(flag) == FALSE
listenerHistory(flag, history) == IF flag THEN history ELSE <<>>

\* What grow computes before it touches the engine: threw, and the ranges
\* (findParams in "main", strategy.grow in "copy").
growOutput(v, sf, sels) ==
    IF sf.languageId \in InheritedKeys THEN Params(TRUE, <<>>)
    ELSE IF v = "main" THEN findParams(sf, sels)
    ELSE Params(FALSE, TypescriptStrategy_grow("copy", sf, sels))

\* "main" returns before recording when paramRanges is empty; "copy" does not
growReturnsOnEmpty(v) == v = "main"

\* the last n elements of a sequence (all of it when it is shorter)
lastOf(seq, n) == IF Len(seq) > n THEN SubSeq(seq, Len(seq) - n + 1, Len(seq)) ELSE seq

\* this.strategies[doc.languageId] is defined
registered(sf) == sf.languageId \in Strategies \cup InheritedKeys

\* grow gets past its early returns and records the current selections
records(editor, sf, out) ==
    /\ editor /\ registered(sf) /\ ~out.threw
    /\ ~(growReturnsOnEmpty(variant) /\ Len(out.ranges) = 0)

\* The grow command once the strategy's output out and the selections newSels
\* made of it are known
GrowWith(editor, sf, out, newSels) ==
    /\ records(editor, sf, out) => Len(selectionsHistory) < MaxHistory
    /\ (records(editor, sf, out) /\ willApply(editor, newSels))
          => (pending < MaxPending /\ Len(newSels) <= MaxSel)
    /\ IF records(editor, sf, out)
       THEN /\ selectionsHistory' = updateSelectionsHistory(selectionsHistory, selections)
            /\ updateSelections(editor, newSels)
       ELSE UNCHANGED <<selectionsHistory, didUpdateSelections, selections, pending>>
    /\ lastOp' = Op("grow",
                    IF editor /\ ~registered(sf) THEN NativeGrow ELSE "none",
                    records(editor, sf, out) /\ willApply(editor, newSels),
                    editor /\ registered(sf) /\ out.threw,
                    editor /\ registered(sf) /\ ~out.threw /\ Len(out.ranges) = 0)
    /\ expect' = IF /\ records(editor, sf, out) /\ willApply(editor, newSels)
                    /\ ~areSelectionsEqual(newSels, selections) /\ pending = 0
                 THEN lastOf(Append(expect, selections), MaxHistory)
                 ELSE <<>>
    /\ extSeen' = FALSE
    /\ UNCHANGED <<variant, doc, call>>

\* The grow command, given the strategy's output
GrowOf(editor, sf, out) == GrowWith(editor, sf, out, toSelections(sf, out.ranges))

\* The grow command; editor tells whether vscode.window.activeTextEditor is defined
Grow(editor) == GrowOf(editor, Docs[doc], growOutput(variant, Docs[doc], selections))

\* Faulty variant of shrinkCommand: no host command on an empty history
shrinkCommandNone(popped) == "none"

\* shrink's else branch: vscode.commands.executeCommand("editor.action.smartSelect.shrink")
shrinkCommand(popped) == IF popped # undefined THEN "none" ELSE NativeShrink

\* The shrink command
Shrink(editor) ==
    LET popped == IF Len(selectionsHistory) > 0
                  THEN <<selectionsHistory[Len(selectionsHistory)]>>
                  ELSE undefined
        applies == popped # undefined /\ willApply(editor, popped[1])
    IN  /\ applies => pending < MaxPending
        /\ IF popped # undefined
           THEN /\ selectionsHistory' = SubSeq(selectionsHistory, 1, Len(selectionsHistory) - 1)
                /\ updateSelections(editor, popped[1])
           ELSE UNCHANGED <<selectionsHistory, didUpdateSelections, selections, pending>>
        /\ lastOp' = Op("shrink", shrinkCommand(popped), applies, FALSE, FALSE)
        /\ expect' = IF applies /\ expect # <<>> /\ lastOp.op # "grow"
                     THEN SubSeq(expect, 1, Len(expect) - 1)
                     ELSE <<>>
        /\ extSeen' = FALSE
        /\ UNCHANGED <<variant, doc, call>>

\* The host delivers the change event of one of the engine's own applies
OwnChangeEvent ==
    /\ pending > 0
    /\ pending' = pending - 1
    /\ didUpdateSelections' = listenerFlag(didUpdateSelections)
    /\ selectionsHistory' = listenerHistory(didUpdateSelections, selectionsHistory)
    /\ lastOp' = Op("ownEvent", "none", FALSE, FALSE, FALSE)
    /\ UNCHANGED <<variant, doc, selections, expect, extSeen, call>>

\* The user changes the selections; the host delivers the change event
ExternalChange ==
    /\ \E sels \in UserSelectionSets(Docs[doc]) :
          /\ ~areSelectionsEqual(sels, selections)
          /\ selections' = sels
    /\ didUpdateSelections' = listenerFlag(didUpdateSelections)
    /\ selectionsHistory' = listenerHistory(didUpdateSelections, selectionsHistory)
    /\ lastOp' = Op("externalEvent", "none", FALSE, FALSE, FALSE)
    /\ expect' = <<>>
    /\ extSeen' = TRUE
    /\ UNCHANGED <<variant, doc, pending, call>>

GrowCommand == \E editor \in BOOLEAN : Grow(editor)

\* A call of the public method shrink(); activate registers a command for
\* grow only, so shrink runs when a caller of the class invokes it.
ShrinkCommand == \E editor \in BOOLEAN : Shrink(editor)

\* An evaluation of a pure function: its name, its argument (ranges), what it
\* returned (ranges; <<>> for undefined), whether it threw, and, for
\* growUntilJsxElement, the number of growRange calls it made.
Call(fn, arg, ret, threw, n) ==
    [fn |-> fn, arg |-> arg, ret |-> ret, threw |-> threw, n |-> n]

NoCall == Call("none", <<>>, <<>>, FALSE, 0)

Init ==
    /\ variant \in Variants
    /\ doc \in EditorDocs
    /\ selections \in UserSelectionSets(Docs[doc])
    /\ selectionsHistory = <<>>
    /\ didUpdateSelections = FALSE
    /\ pending = 0
    /\ lastOp = Op("init", "none", FALSE, FALSE, FALSE)
    /\ expect = <<>>
    /\ extSeen = FALSE
    /\ call = NoCall

Next == GrowCommand \/ ShrinkCommand \/ OwnChangeEvent \/ ExternalChange

Spec == Init /\ [][Next]_vars

\* The engine with no external selection change: only the commands and the
\* deliveries of the change events of the engine's own applies interleave.
NextOwn == GrowCommand \/ ShrinkCommand \/ OwnChangeEvent

SpecOwn == Init /\ [][NextOwn]_vars

----------------------------------------------------------------------------
(* The pure functions, applied to inputs drawn from bounded sets *)

\* The offsets inputs are drawn from: every offset of a short document and one
\* on each side of it; for the deep document, its ends and its marks.
Offsets(sf) ==
    IF sf.name = "deep"
    THEN sf.marks \cup {-1, 0, Len(sf.text), Len(sf.text) + 1}
    ELSE -1 .. (Len(sf.text) + 1)

RangesOver(offsets) == { Range(p[1], p[2]) : p \in {q \in offsets \X offsets : q[1] <= q[2]} }

Ranges(sf) == RangesOver(Offsets(sf))

\* The ranges batches are made of
BatchOffsets(sf) ==
    IF sf.name = "deep"
    THEN sf.marks
    ELSE sf.marks \cup {0, Len(sf.text), Len(sf.text) + 1}

BatchRanges(sf) == RangesOver(BatchOffsets(sf))

Batches(sf) == UNION { [1..n -> BatchRanges(sf)] : n \in 0..MaxBatch }

\* 0 <= start <= end <= length(text)
validRange(text, range) ==
    0 <= range.start /\ range.start <= range.end /\ range.end <= Len(text)

CallCollapseWhitespace ==
    /\ call = NoCall
    /\ \E range \in Ranges(Docs[doc]) :
          call' = Call("collapseWhitespace", <<range>>,
                       <<collapseWhitespace(Docs[doc].text, range)>>, FALSE, 0)
    /\ UNCHANGED <<variant, doc, selections, selectionsHistory, didUpdateSelections,
                   pending, lastOp, expect, extSeen>>

\* call.ret is the path: the returned nodes, outermost first
CallGetPathOfNodesInRange ==
    /\ call = NoCall
    /\ \E range \in Ranges(Docs[doc]) :
          call' = Call("getPathOfNodesInRange", <<range>>,
                       getPathOfNodesInRange(Docs[doc], range.start, range.end), FALSE, 0)
    /\ UNCHANGED <<variant, doc, selections, selectionsHistory, didUpdateSelections,
                   pending, lastOp, expect, extSeen>>

CallGrowRange ==
    /\ call = NoCall
    /\ \E range \in Ranges(Docs[doc]) :
          call' = Call("growRange", <<range>>, growRange(variant, Docs[doc], range), FALSE, 0)
    /\ UNCHANGED <<variant, doc, selections, selectionsHistory, didUpdateSelections,
                   pending, lastOp, expect, extSeen>>

CallGrow ==
    /\ call = NoCall
    /\ \E batch \in Batches(Docs[doc]) :
          call' = Call("grow", batch, growRanges(variant, Docs[doc], batch), FALSE, 0)
    /\ UNCHANGED <<variant, doc, selections, selectionsHistory, didUpdateSelections,
                   pending, lastOp, expect, extSeen>>

\* growUntilJsxElement has returned out for range
ReturnGrowUntilJsxElement(range, out) ==
    /\ out.done
    /\ call' = Call("growUntilJsxElement", <<range>>, out.ret, FALSE, out.calls)

CallGrowUntilJsxElement ==
    /\ call = NoCall
    /\ variant = "main"
    /\ \E range \in BatchRanges(Docs[doc]) :
          ReturnGrowUntilJsxElement(range, growUntilJsxElement(Docs[doc], range))
    /\ UNCHANGED <<variant, doc, selections, selectionsHistory, didUpdateSelections,
                   pending, lastOp, expect, extSeen>>

\* findParams has returned out (or thrown) for batch
ReturnFindParams(batch, out) == call' = Call("findParams", batch, out.ranges, out.threw, 0)

CallFindParams ==
    /\ call = NoCall
    /\ variant = "main"
    /\ \E batch \in Batches(Docs[doc]) :
          ReturnFindParams(batch, findParamsFrom(Docs[doc], batch))
    /\ UNCHANGED <<variant, doc, selections, selectionsHistory, didUpdateSelections,
                   pending, lastOp, expect, extSeen>>

InitPure ==
    /\ variant \in Variants
    /\ doc \in DocNames
    /\ selections = <<>>
    /\ selectionsHistory = <<>>
    /\ didUpdateSelections = FALSE
    /\ pending = 0
    /\ lastOp = Op("init", "none", FALSE, FALSE, FALSE)
    /\ expect = <<>>
    /\ extSeen = FALSE
    /\ call = NoCall

NextPure ==
    \/ CallCollapseWhitespace
    \/ CallGetPathOfNodesInRange
    \/ CallGrowRange
    \/ CallGrow
    \/ CallGrowUntilJsxElement
    \/ CallFindParams

SpecPure == InitPure /\ [][NextPure]_vars

----------------------------------------------------------------------------
(* growRange applied to its own result: the loop of growUntilJsxElement without
   its test and limit, and the grow command repeated by the user.  call.arg is
   the range the repetition started from, call.ret the range reached (undefined
   once growRange returned undefined) and call.n the number of growRange calls. *)

StartGrowing ==
    /\ call = NoCall
    /\ \E range \in Ranges(Docs[doc]) :
          call' = Call("repeat", <<range>>, <<range>>, FALSE, 0)
    /\ UNCHANGED <<variant, doc, selections, selectionsHistory, didUpdateSelections,
                   pending, lastOp, expect, extSeen>>

\* grownRange = growRange(editor, grownRange)
GrowAgain ==
    /\ call.fn = "repeat"
    /\ call.ret # undefined
    /\ call.n < MaxLoop
    /\ call' = [call EXCEPT !.ret = growRange(variant, Docs[doc], call.ret[1]),
                            !.n = @ + 1]
    /\ UNCHANGED <<variant, doc, selections, selectionsHistory, didUpdateSelections,
                   pending, lastOp, expect, extSeen>>

NextRepeat ==
    \/ StartGrowing
    \/ GrowAgain

\* The caller's loop runs on while it has a range to grow.
SpecRepeat == InitPure /\ [][NextRepeat]_vars /\ WF_vars(GrowAgain)

----------------------------------------------------------------------------
(* Properties of the pure functions (checked under SpecPure) *)

\* C4 (monotonic growth): for an input range with 0 <= start <= end <=
\* length(text), a range growRange returns contains the input range
\* (start' <= start and end' >= end) and is larger on at least one side
\* (start' < start or end' > end).
MonotonicGrowth ==
    (call.fn = "growRange" /\ call.ret # undefined /\ validRange(Docs[doc].text, call.arg[1]))
        => /\ call.ret[1].start <= call.arg[1].start
           /\ call.ret[1].end >= call.arg[1].end
           /\ (call.ret[1].start < call.arg[1].start \/ call.ret[1].end > call.arg[1].end)

\* growRange has returned a range that is larger than a valid input on both sides
MonotonicGrowthWitness ==
    /\ call.fn = "growRange" /\ call.ret # undefined
    /\ validRange(Docs[doc].text, call.arg[1])
    /\ call.ret[1].start < call.arg[1].start
    /\ call.ret[1].end > call.arg[1].end

\* C5 as stated (termination bound): growUntilJsxElement never performs more
\* calls of growRange than the step bound rLimit (100).
StepBound == call.fn = "growUntilJsxElement" => call.n <= rLimit

\* C5 as amended: growUntilJsxElement never performs more than rLimit + 1 (101)
\* calls of growRange, and a walk that made rLimit + 1 calls returns undefined.
StepBoundPlusOne ==
    call.fn = "growUntilJsxElement"
        => /\ call.n <= rLimit + 1
           /\ (call.n = rLimit + 1 => call.ret = undefined)

\* growUntilJsxElement has given up after rLimit + 1 calls of growRange, on a
\* document with no JSX element and more than rLimit + 1 nested nodes
StepBoundWitness ==
    /\ call.fn = "growUntilJsxElement"
    /\ doc = "deep"
    /\ call.n = rLimit + 1
    /\ call.ret = undefined

\* the character at an offset is not whitespace
nonWhitespaceAt(text, offset) == ~WHITESPACE(charAt(text, offset))

\* C6 (no emitted selection begins or ends on whitespace): for every range
\* growRange returns and every range findParams emits, the character at its
\* start and the character at its end - 1 are not whitespace.
NoWhitespaceBoundary ==
    call.fn \in {"growRange", "findParams"}
        => \A i \in 1..Len(call.ret) :
              /\ nonWhitespaceAt(Docs[doc].text, call.ret[i].start)
              /\ nonWhitespaceAt(Docs[doc].text, call.ret[i].end - 1)

\* growRange has returned the range of a node whose full span begins with
\* whitespace, so that the collapse moved its start
NoWhitespaceBoundaryWitness ==
    /\ call.fn = "growRange" /\ call.ret # undefined
    /\ \E n \in 1..Len(Docs[doc].nodes) :
          /\ collapseWhitespace(Docs[doc].text, nodeToRange(variant, Docs[doc], n)) = call.ret[1]
          /\ WHITESPACE(charAt(Docs[doc].text, Docs[doc].nodes[n].pos))

\* C7 (idempotent whitespace collapse): collapseWhitespace applied to a range
\* it returned returns the same range, also for ranges of whitespace only and
\* for empty ranges.
IdempotentCollapse ==
    call.fn = "collapseWhitespace"
        => collapseWhitespace(Docs[doc].text, call.ret[1]) = call.ret[1]

\* collapseWhitespace was applied to a non-empty range of whitespace only, and
\* moved both of its ends
IdempotentCollapseWitness ==
    /\ call.fn = "collapseWhitespace"
    /\ call.arg[1].start < call.arg[1].end
    /\ \A i \in call.arg[1].start .. (call.arg[1].end - 1) : WHITESPACE(charAt(Docs[doc].text, i))
    /\ call.ret[1].start > call.arg[1].start
    /\ call.ret[1].end < call.arg[1].end

\* the results of growRange for each range of a batch, in input order
eachGrown(v, sf, batch) == [i \in 1..Len(batch) |-> growRange(v, sf, batch[i])]

\* the ranges of a sequence of results, those that are undefined left out
definedOnes(results) ==
    [i \in 1..Len(SelectSeq(results, LAMBDA r : r # undefined)) |->
        SelectSeq(results, LAMBDA r : r # undefined)[i][1]]

\* C8 (batch independence): the output of TypescriptStrategy.grow for a batch
\* is the sequence of the results of growRange for each range, in input order,
\* with the undefined results removed; a range that cannot grow changes or
\* removes no other result.
BatchIndependence ==
    call.fn = "grow" => call.ret = definedOnes(eachGrown(variant, Docs[doc], call.arg))

\* a batch whose first range cannot grow (it lies outside the text) and whose
\* second range grew
BatchIndependenceWitness ==
    /\ call.fn = "grow"
    /\ Len(call.arg) = 2
    /\ ~validRange(Docs[doc].text, call.arg[1])
    /\ growRange(variant, Docs[doc], call.arg[1]) = undefined
    /\ Len(call.ret) = 1

\* C13 (as claimed): a range growRange returns for an input range with
\* 0 <= start <= end <= length(text) contains the input range, and exactly one
\* of its two boundaries differs from the input's.
ExactlyOneBoundaryMoves ==
    (call.fn = "growRange" /\ call.ret # undefined /\ validRange(Docs[doc].text, call.arg[1]))
        => /\ call.ret[1].start <= call.arg[1].start
           /\ call.ret[1].end >= call.arg[1].end
           /\ (call.ret[1].start = call.arg[1].start) # (call.ret[1].end = call.arg[1].end)

\* C13 (amended): the returned range contains the input range and does not
\* equal it: one boundary or both boundaries move in a single growth step.
SomeBoundaryMoves ==
    (call.fn = "growRange" /\ call.ret # undefined /\ validRange(Docs[doc].text, call.arg[1]))
        => /\ call.ret[1].start <= call.arg[1].start
           /\ call.ret[1].end >= call.arg[1].end
           /\ call.ret[1] # call.arg[1]

\* growRange was given a cursor inside a token and returned the token: both
\* boundaries moved
SomeBoundaryMovesWitness ==
    /\ call.fn = "growRange" /\ call.ret # undefined
    /\ call.arg[1].start = call.arg[1].end
    /\ call.arg[1].start - call.ret[1].start >= 1
    /\ call.ret[1].end - call.arg[1].end >= 1
    /\ call.ret[1].end <= Len(Docs[doc].text)

\* C14 (collapse never crosses): for an input range with 0 <= start <= end <=
\* length(text), also one of whitespace only, the range collapseWhitespace
\* returns has start' <= end', start <= start' and end' <= end.
CollapseNeverCrosses ==
    (call.fn = "collapseWhitespace" /\ validRange(Docs[doc].text, call.arg[1]))
        => /\ call.ret[1].start <= call.ret[1].end
           /\ call.arg[1].start <= call.ret[1].start
           /\ call.ret[1].end <= call.arg[1].end

\* C17 (one ancestor chain): for every range, also an empty range on the
\* boundary between two sibling nodes, each node of the path
\* getPathOfNodesInRange returns after the first is a child of the node before
\* it, and the last node is an innermost node containing the range.
AncestorChain ==
    call.fn = "getPathOfNodesInRange"
        => /\ \A i \in 2..Len(call.ret) : ParentOf[doc][call.ret[i]] = call.ret[i - 1]
           /\ call.ret # <<>>
                => /\ ~notContained(Docs[doc], call.ret[Len(call.ret)],
                                    call.arg[1].start, call.arg[1].end)
                   /\ \A n \in 1..Len(Docs[doc].nodes) :
                         ParentOf[doc][n] = call.ret[Len(call.ret)]
                            => notContained(Docs[doc], n, call.arg[1].start, call.arg[1].end)

\* the collapsed ranges of the nodes of a path that rangeToNode accepts for range
acceptedCandidates(v, sf, range, path) ==
    {c \in {collapseWhitespace(sf.text, nodeToRange(v, sf, path[i])) : i \in 1..Len(path)} :
        accepts(c, range)}

\* C18 (minimal growth): the range growRange returns is contained in the
\* collapsed range of every node of the path that the acceptance test accepts:
\* no accepted candidate is smaller than the returned range.
MinimalGrowth ==
    (call.fn = "growRange" /\ call.ret # undefined)
        => \A c \in acceptedCandidates(variant, Docs[doc], call.arg[1],
                        getPathOfNodesInRange(Docs[doc], call.arg[1].start, call.arg[1].end)) :
              c.start <= call.ret[1].start /\ call.ret[1].end <= c.end

----------------------------------------------------------------------------
(* Properties of VerySmartSelect *)

\* C1 (grow/shrink symmetry): after n successful grows, each followed by the
\* change event of its own apply and with no external selection change, each of
\* the n shrinks that follow restores the SelectionSet that was active before
\* the corresponding grow, so that after the n-th shrink the editor shows the
\* original SelectionSet.  expect holds the SelectionSets the shrinks are to
\* restore, the latest last: a grow that applies a new SelectionSet while no
\* change event is in flight appends the SelectionSet it replaced, and a shrink
\* removes the last one; lastOp.op # "grow" says that the change event of the
\* last grow has been observed.
GrowShrinkSymmetry ==
    [][(Shrink(TRUE) /\ expect # <<>> /\ lastOp.op # "grow")
          => selections' = expect[Len(expect)]]_vars

\* C2 (history invalidation): a shrink that follows an external selection
\* change made after the last grow finds the history empty and executes the
\* host's shrink command; it applies no SelectionSet recorded before the change.
HistoryInvalidation ==
    [][(Shrink(TRUE) /\ extSeen)
          => (selectionsHistory = <<>> /\ lastOp'.native = NativeShrink /\ ~lastOp'.applied)]_vars

\* C3 (flag ordering): when the change event of one of the engine's own
\* applies is observed, didUpdateSelections is still set, and the event does
\* not clear the history.
OwnEventKeepsHistory ==
    [][OwnChangeEvent => (didUpdateSelections /\ selectionsHistory' = selectionsHistory)]_vars

\* C9 as stated (empty-result fallback): a grow on a document with a registered
\* strategy that computes an empty output executes the host's grow command.
\* (lastOp'.op = "grow" holds of the steps of the grow command, and
\* lastOp'.emptyOut of those that computed an empty output with a strategy.)
EmptyOutputFallsBack ==
    [][(lastOp'.op = "grow" /\ lastOp'.emptyOut) => lastOp'.native = NativeGrow]_vars

\* C9 as amended: a grow on a document with a registered strategy that computes
\* an empty output executes no host command and applies no selections: the
\* selections of the editor stay as they are and the one-shot flag is not set.
EmptyOutputAppliesNothing ==
    [][(lastOp'.op = "grow" /\ lastOp'.emptyOut)
          => /\ lastOp'.native = "none"
             /\ ~lastOp'.applied
             /\ selections' = selections
             /\ didUpdateSelections' = didUpdateSelections
             /\ pending' = pending]_vars

\* a grow has computed an empty output on a document with a registered strategy
EmptyOutputWitness ==
    /\ lastOp.op = "grow" /\ lastOp.emptyOut
    /\ Docs[doc].languageId \in Strategies

\* C10 (shrink on an empty history): it executes the host's shrink command and
\* changes nothing in the engine: the history stays empty, the one-shot flag is
\* not set, and no selections are applied.
ShrinkOnEmptyHistory ==
    [][(selectionsHistory = <<>> /\ ShrinkCommand)
          => /\ lastOp'.native = NativeShrink
             /\ selectionsHistory' = <<>>
             /\ didUpdateSelections' = didUpdateSelections
             /\ ~lastOp'.applied
             /\ selections' = selections
             /\ pending' = pending]_vars

\* a shrink has found the history empty and executed the host's shrink command
ShrinkOnEmptyHistoryWitness ==
    /\ lastOp.op = "shrink"
    /\ lastOp.native = NativeShrink
    /\ selectionsHistory = <<>>

\* C15 (history grows only on a successful grow): a grow command that computes
\* an empty output, and so applies no selections, leaves the history exactly as
\* it was.
HistoryOnlyOnSuccess ==
    [][(lastOp'.op = "grow" /\ lastOp'.emptyOut)
          => selectionsHistory' = selectionsHistory]_vars

\* C19 (no adjacent duplicates): after any sequence of grow commands, shrink
\* commands and selection change events, no two consecutive entries of the
\* history are equal (same length and pairwise equal selections).
NoAdjacentDuplicates ==
    \A i \in 1..(Len(selectionsHistory) - 1) :
        ~areSelectionsEqual(selectionsHistory[i], selectionsHistory[i + 1])

\* a grow has left the current selections equal to the last entry of a history
\* of several entries, so that the next grow records the same selections again
NoAdjacentDuplicatesWitness ==
    /\ lastOp.op = "grow"
    /\ Len(selectionsHistory) >= 2
    /\ areSelectionsEqual(selectionsHistory[Len(selectionsHistory)], selections)

----------------------------------------------------------------------------
(* Properties of the attribute extraction (checked under SpecPure) *)

\* the deepest node of a path that is a markup element and whose collapsed
\* range grows range: the nearest markup element range grows to
deepestElementOf(sf, range, path) ==
    LET els == {i \in 1..Len(path) :
                   /\ isJsxElementNode(sf, path[i])
                   /\ accepts(collapseWhitespace(sf.text, nodeToRange("main", sf, path[i])),
                              range)}
    IN  IF els = {} THEN NoNode ELSE path[CHOOSE i \in els : \A j \in els : j <= i]

nearestElement(sf, range) ==
    deepestElementOf(sf, range, getPathOfNodesInRange(sf, range.start, range.end))

\* the attribute list of a markup element: the first node of its subtree of
\* kind JsxAttributes
attributeListOf(sf, element) ==
    LET lists == {m \in (element + 1)..Len(sf.nodes) :
                     element \in sf.ancestors[m] /\ sf.nodes[m].kind = "JsxAttributes"}
    IN  IF element = NoNode \/ lists = {}
        THEN NoNode
        ELSE CHOOSE m \in lists : \A k \in lists : m <= k

\* the children of an attribute list that are attributes with a name node
namedAttributes(sf, list) ==
    SelectSeq(sf.nodes[list].children,
              LAMBDA c : sf.nodes[c].kind = "JsxAttribute" /\ sf.nodes[c].children # <<>>)

\* the collapsed ranges of the names of the attributes of an attribute list
namesOf(sf, list) ==
    IF list = NoNode
    THEN <<>>
    ELSE [i \in 1..Len(namedAttributes(sf, list)) |->
            collapseWhitespace(sf.text,
                nodeToRange("main", sf, sf.nodes[namedAttributes(sf, list)[i]].children[1]))]

\* the names of the attributes of the nearest markup element of each range of a
\* batch, in input order
RECURSIVE namesOfBatch(_, _)
namesOfBatch(sf, batch) ==
    IF batch = <<>>
    THEN <<>>
    ELSE namesOf(sf, attributeListOf(sf, nearestElement(sf, Head(batch))))
            \o namesOfBatch(sf, Tail(batch))

\* C11 (attribute fan-out): for every batch of ranges, findParams returns the
\* concatenation, in input order, of the collapsed name ranges of the attributes
\* of the attribute list of the nearest markup element each range grows to; a
\* range with no such element, or whose element has no attribute list,
\* contributes nothing.
AttributeFanOut ==
    (call.fn = "findParams" /\ ~call.threw) => call.ret = namesOfBatch(Docs[doc], call.arg)

----------------------------------------------------------------------------
(* Properties of repeated growth (checked under SpecRepeat) *)

width(range) == range.end - range.start

\* C20 (termination): growRange applied repeatedly to its own result, starting
\* from a range with 0 <= start <= end <= length, returns undefined after
\* finitely many steps: every range it returns lies inside the text and is
\* longer than the range of the step before, so at most length(text) calls
\* return a range and the loop of growUntilJsxElement ends without its step
\* limit.
RepeatedGrowthEnds ==
    (call.fn = "repeat" /\ validRange(Docs[doc].text, call.arg[1]))
        => /\ call.n <= Len(Docs[doc].text) + 1
           /\ call.ret # undefined
                => /\ validRange(Docs[doc].text, call.ret[1])
                   /\ width(call.ret[1]) >= width(call.arg[1]) + call.n

\* the repetition on the deeply nested document ended after more growRange
\* calls than the step limit of growUntilJsxElement allows
RepeatedGrowthEndsWitness ==
    /\ call.fn = "repeat"
    /\ validRange(Docs[doc].text, call.arg[1])
    /\ call.ret = undefined
    /\ call.n > rLimit + 1

\* the cursor immediately after a in  const x = { a: 1, b: 2 };
afterA == Range(13, 13)

\* C12 (as claimed): with the cursor immediately after a in
\* const x = { a: 1, b: 2 };  the first grow selects  a: 1 , the second the
\* object literal and the third the full statement.
ObjectLiteralExample ==
    (doc = "obj" /\ call.fn = "repeat" /\ call.arg = <<afterA>>)
        => /\ call.n = 1 => call.ret = <<Range(12, 16)>>
           /\ call.n = 2 => call.ret = <<Range(10, 24)>>
           /\ call.n = 3 => call.ret = <<Range(0, 25)>>

\* C12 (amended): the first grow selects  a , the second  a: 1 , the third the
\* object literal  { a: 1, b: 2 } , the fourth  x = { a: 1, b: 2 } , the fifth
\* const x = { a: 1, b: 2 }  and the sixth the full statement.
ObjectLiteralGrowth ==
    (doc = "obj" /\ call.fn = "repeat" /\ call.arg = <<afterA>>)
        => /\ call.n = 1 => call.ret = <<Range(12, 13)>>
           /\ call.n = 2 => call.ret = <<Range(12, 16)>>
           /\ call.n = 3 => call.ret = <<Range(10, 24)>>
           /\ call.n = 4 => call.ret = <<Range(6, 24)>>
           /\ call.n = 5 => call.ret = <<Range(0, 24)>>
           /\ call.n = 6 => call.ret = <<Range(0, Len(TextObj))>>

\* six grows from the cursor after a have reached the full statement
ObjectLiteralGrowthWitness ==
    /\ doc = "obj"
    /\ variant = "copy"
    /\ call.fn = "repeat"
    /\ call.arg = <<afterA>>
    /\ call.n = 6
    /\ call.ret = <<Range(0, Len(TextObj))>>

====
